---- MODULE Spec2Model ----
(***************************************************************************)
(* Model of the job-posting extraction engine of AIScrapper:               *)
(*   scraper.py  AdvancedJobScraper (session lifecycle, portal detection,  *)
(*               extraction pipeline, sequential batch_scrape)             *)
(*   api.py      batch_scrape_jobs (semaphore-gated concurrent batch)      *)
(*   main.py     scrape_job endpoint and reinitialize_scraper              *)
(*                                                                         *)
(* Strings are sequences of tokens that concatenate without separators;    *)
(* the token SP is one blank.  A dict is a function whose DOMAIN is the    *)
(* set of keys present, so that dict.get(key, default) is Get.             *)
(***************************************************************************)
EXTENDS Integers, Sequences, FiniteSets, TLC

\* ------------------------------------------------------------------ bounds
MaxBatch == 2      \* longest list of URLs in a batch request
MaxOps   == 3      \* operations the library client performs
NCalls   == 2      \* concurrent requests to the scrape endpoint
MaxInst  == 3      \* scraper instances constructed in one run
MaxText  == 3      \* tokens of a text given to the experience classifier
MaxNetloc == 2     \* tokens of the network location of a URL

\* ----------------------------------------------------------------- strings
SP == " "
NA == <<"N/A">>

RECURSIVE lstrip(_)
lstrip(s) == IF s # <<>> /\ Head(s) = SP THEN lstrip(Tail(s)) ELSE s

RECURSIVE rstrip(_)
rstrip(s) == IF s # <<>> /\ s[Len(s)] = SP THEN rstrip(SubSeq(s, 1, Len(s) - 1)) ELSE s

\* str.strip()
strip(s) == rstrip(lstrip(s))

\* number of characters of a token
TokLen(t) ==
  CASE t = SP -> 1
    [] t = "N/A" -> 3
    [] t = "Senior Python Developer" -> 23
    [] t = "Junior Java Intern" -> 18
    [] t = "Mid/Regular" -> 11
    [] t = "Team Lead" -> 9
    [] t = "international" -> 13
    [] t = "Acme" -> 4
    [] t = "Warszawa" -> 8
    [] t = "15 000 PLN" -> 10
    [] t = "Min. 4 lata Python" -> 18
    [] t = "Docker" -> 6
    [] t = "Python" -> 6
    [] t = "We build things" -> 15
    [] OTHER -> 7

RECURSIVE CharLen(_)
\* len(s)
CharLen(s) == IF s = <<>> THEN 0 ELSE TokLen(Head(s)) + CharLen(Tail(s))

\* the terms and lexicon keywords that occur, case-insensitively, as a
\* substring of a token
Occurs(t) ==
  CASE t = "Senior Python Developer" -> {"senior", "Python"}
    [] t = "Junior Java Intern" -> {"junior", "intern", "Java"}
    [] t = "Mid/Regular" -> {"mid", "regular"}
    [] t = "Team Lead" -> {"lead"}
    [] t = "international" -> {"intern"}
    [] t = "Min. 4 lata Python" -> {"Python"}
    [] t = "Docker" -> {"Docker"}
    [] t = "Python" -> {"Python"}
    [] t = "invalid session id" -> {"invalid session id"}
    [] t = "Invalid Session Id" -> {"invalid session id"}
    [] t = "403" -> {"403"}
    [] t = "/offer/14033" -> {"403"}
    [] OTHER -> {}

\* w in text.lower()
InText(w, text) == \E i \in DOMAIN text : w \in Occurs(text[i])

\* any(char.isdigit() for char in text)
HasDigit(text) == \E i \in DOMAIN text : text[i] \in {"15 000 PLN", "Min. 4 lata Python", "403", "/offer/14033"}

\* " ".join(items)
RECURSIVE join(_)
join(items) ==
  IF items = <<>> THEN <<>>
  ELSE IF Len(items) = 1 THEN items[1]
  ELSE items[1] \o <<SP>> \o join(Tail(items))

\* seq[:n]
Take(s, n) == SubSeq(s, 1, IF Len(s) < n THEN Len(s) ELSE n)

Range(s) == {s[i] : i \in DOMAIN s}

\* dict.get(k, default)
Get(d, k, def) == IF k \in DOMAIN d THEN d[k] ELSE def

\* ------------------------------------------------------------ portal table
PortalKeys == <<"pracuj.pl", "indeed.pl", "indeed.com", "nofluffjobs.com",
                "justjoin.it", "theprotocol.it", "bulldogjob.pl">>
PortalIds  == <<"pracuj", "indeed", "indeed", "nofluff",
                "justjoin", "protocol", "bulldog">>

\* the portal keys that occur in a lower-cased token of a netloc
NetlocOccurs(t) ==
  CASE t = "pracuj.pl" -> {"pracuj.pl"}
    [] t = "PRACUJ.PL" -> {"pracuj.pl"}
    [] t = "nofluffjobs.com" -> {"nofluffjobs.com"}
    [] t = "justjoin.it" -> {"justjoin.it"}
    [] t = "indeed.com" -> {"indeed.com"}
    [] t = "indeed.pl" -> {"indeed.pl"}
    [] t = "theprotocol.it" -> {"theprotocol.it"}
    [] t = "bulldogjob.pl" -> {"bulldogjob.pl"}
    [] OTHER -> {}

RECURSIVE FirstPortal(_, _)
FirstPortal(netloc, i) ==
  IF i > Len(PortalKeys) THEN "unknown"
  ELSE IF \E j \in DOMAIN netloc : PortalKeys[i] \in NetlocOccurs(netloc[j])
       THEN PortalIds[i]
       ELSE FirstPortal(netloc, i + 1)

\* A URL is [netloc, path, bad]; bad: urlparse raises ValueError on it.
detect_portal(url) == FirstPortal(url.netloc, 1)

UPracuj   == [netloc |-> <<"www.", "pracuj.pl">>, path |-> <<"/praca/1">>, bad |-> FALSE]
UNofluff  == [netloc |-> <<"nofluffjobs.com">>, path |-> <<"/job/2">>, bad |-> FALSE]
UJustjoin == [netloc |-> <<"justjoin.it">>, path |-> <<"/offers/3">>, bad |-> FALSE]
UOther    == [netloc |-> <<"example.com">>, path |-> <<"/offer/14033">>, bad |-> FALSE]
UBad      == [netloc |-> <<"[">>, path |-> <<>>, bad |-> TRUE]
NoUrl     == [netloc |-> <<>>, path |-> <<>>, bad |-> FALSE]

Urls == {UPracuj, UNofluff, UJustjoin, UOther, UBad}

\* --------------------------------------------------- experience classifier
SeniorTerms == {"senior", "lead", "principal", "architect", "5+ lat", "5+ years", "starszy"}
JuniorTerms == {"junior", "intern", "trainee", "entry", "poczatkuj", "mlodszy"}
MidTerms    == {"mid", "regular", "specjalista", "2-4 lat", "2-4 years"}

\* the classifier testing the Junior terms before the Senior terms
_extract_experience_level_junior_first(text) ==
  IF text = <<>> THEN <<"Unknown">>
  ELSE IF \E w \in JuniorTerms : InText(w, text) THEN <<"Junior">>
  ELSE IF \E w \in SeniorTerms : InText(w, text) THEN <<"Senior">>
  ELSE <<"Mid">>

_extract_experience_level(text) ==
  IF text = <<>> THEN <<"Unknown">>
  ELSE IF \E w \in SeniorTerms : InText(w, text) THEN <<"Senior">>
  ELSE IF \E w \in JuniorTerms : InText(w, text) THEN <<"Junior">>
  ELSE IF \E w \in MidTerms : InText(w, text) THEN <<"Mid">>
  ELSE <<"Mid">>

\* ---------------------------------------------------------------- lexicon
_get_tech_keywords ==
  <<"Python", "Java", "JavaScript", "TypeScript", "C#", "C++", "PHP", "Ruby", "Go", "Rust", "Kotlin",
    "React", "Angular", "Vue", "Django", "Flask", "Spring", "Node.js", "Express", "FastAPI",
    "MySQL", "PostgreSQL", "MongoDB", "Redis", "ElasticSearch", "SQLite",
    "Docker", "Kubernetes", "AWS", "Azure", "GCP", "Jenkins", "GitLab", "GitHub",
    "Git", "CI/CD", "Linux", "Ubuntu", "Nginx", "Apache",
    "Scrum", "Agile", "REST", "API", "GraphQL", "Microservices",
    "HTML", "CSS", "SASS", "Bootstrap", "Tailwind", "jQuery", "Webpack">>

RECURSIVE KeywordsFrom(_, _, _)
\* for keyword in tech_keywords: if keyword.lower() in page_text and
\* keyword not in skills: skills.append(keyword)
KeywordsFrom(text, skills, i) ==
  IF i > Len(_get_tech_keywords) THEN skills
  ELSE LET k == _get_tech_keywords[i] IN
       KeywordsFrom(text,
                    IF InText(k, text) /\ <<k>> \notin Range(skills)
                      THEN Append(skills, <<k>>) ELSE skills,
                    i + 1)

\* -------------------------------------------------------------- documents
\* A document (a page rendered in the session, or fetched static HTML) maps
\* each selector that matches something to the texts of the matching
\* elements, in document order.  "body" holds the whole page text and
\* "re:requirements" the pieces that the requirement patterns and the
\* delimiter split produce from it.
Elems(dom, sel) == IF sel \in DOMAIN dom THEN dom[sel] ELSE <<>>

\* elements of the selector list "a, b"
Elems2(dom, a, b) == Elems(dom, a) \o Elems(dom, b)

BodyText(dom) == IF Elems(dom, "body") = <<>> THEN <<>> ELSE Elems(dom, "body")[1]

\* text[:n], exact for texts whose tokens end on the boundary
RECURSIVE Prefix(_, _)
Prefix(text, n) ==
  IF text = <<>> \/ TokLen(Head(text)) > n THEN <<>>
  ELSE <<Head(text)>> \o Prefix(Tail(text), n - TokLen(Head(text)))

\* x or default
Or(x, def) == IF x = <<>> THEN def ELSE x

RECURSIVE _try_selectors_from(_, _, _)
_try_selectors_from(dom, selectors, i) ==
  IF i > Len(selectors) THEN <<>>           \* None
  ELSE LET els == Elems(dom, selectors[i]) IN
       IF els # <<>> /\ strip(els[1]) # <<>> THEN strip(els[1])
       ELSE _try_selectors_from(dom, selectors, i + 1)

_try_selectors(dom, selectors) == _try_selectors_from(dom, selectors, 1)

RECURSIVE AcceptedItems(_)
\* text and len(text) > 5 and len(text) < 200
AcceptedItems(els) ==
  IF els = <<>> THEN <<>>
  ELSE LET text == strip(Head(els)) IN
       (IF text # <<>> /\ CharLen(text) > 5 /\ CharLen(text) < 200 THEN <<text>> ELSE <<>>)
       \o AcceptedItems(Tail(els))

RECURSIVE _extract_list_items_from(_, _, _)
_extract_list_items_from(dom, selectors, i) ==
  IF i > Len(selectors) THEN <<>>
  ELSE LET items == AcceptedItems(Elems(dom, selectors[i])) IN
       IF items # <<>> THEN items ELSE _extract_list_items_from(dom, selectors, i + 1)

_extract_list_items(dom, selectors) == Take(_extract_list_items_from(dom, selectors, 1), 10)

\* the elements of one selector read before the first elem.text that raises;
\* stale holds the <<selector, element>> positions whose read raises
ReadBefore(els, stale, i) ==
  LET bad == {k \in 1..Len(els) : <<i, k>> \in stale} IN
  IF bad = {} THEN els
  ELSE SubSeq(els, 1, (CHOOSE k \in bad : \A m \in bad : k <= m) - 1)

\* the for loop of _extract_list_items from selector i on, items being the
\* list so far: a read that raises leaves the loop body by "continue"
RECURSIVE _extract_list_items_reading_from(_, _, _, _, _)
_extract_list_items_reading_from(dom, selectors, stale, i, items) ==
  IF i > Len(selectors) THEN items
  ELSE LET els == Elems(dom, selectors[i])
           read == ReadBefore(els, stale, i)
           items2 == items \o AcceptedItems(read)
       IN IF read = els /\ items2 # <<>> THEN items2
          ELSE _extract_list_items_reading_from(dom, selectors, stale, i + 1, items2)

\* _extract_list_items on a page where the reads at stale raise
_extract_list_items_reading(dom, selectors, stale) ==
  Take(_extract_list_items_reading_from(dom, selectors, stale, 1, <<>>), 10)

RECURSIVE AcceptedSkills(_)
\* text and len(text) < 50 and not any(char.isdigit() for char in text)
AcceptedSkills(els) ==
  IF els = <<>> THEN <<>>
  ELSE LET text == strip(Head(els)) IN
       (IF text # <<>> /\ CharLen(text) < 50 /\ ~HasDigit(text) THEN <<text>> ELSE <<>>)
       \o AcceptedSkills(Tail(els))

RECURSIVE SkillTagsFrom(_, _, _)
SkillTagsFrom(dom, selectors, i) ==
  IF i > Len(selectors) THEN <<>>
  ELSE LET skills == AcceptedSkills(Elems(dom, selectors[i])) IN
       IF skills # <<>> THEN skills ELSE SkillTagsFrom(dom, selectors, i + 1)

\* the sequences list(set(xs)) can be: the distinct elements in any order
ListOfSet(xs) ==
  LET S == Range(xs) IN
  {f \in [1..Cardinality(S) -> S] : \A i, j \in 1..Cardinality(S) : f[i] = f[j] => i = j}

\* the discovered skills before list(set(skills))[:15]
DiscoveredSkills(dom, selectors) ==
  KeywordsFrom(BodyText(dom), SkillTagsFrom(dom, selectors, 1), 1)

\* the lists _extract_skills can return
_extract_skills(dom, selectors) ==
  {Take(l, 15) : l \in ListOfSet(DiscoveredSkills(dom, selectors))}

RECURSIVE NonEmptyStripped(_)
\* [elem.text.strip() for elem in els if elem.text.strip()]
NonEmptyStripped(els) ==
  IF els = <<>> THEN <<>>
  ELSE (IF strip(Head(els)) # <<>> THEN <<strip(Head(els))>> ELSE <<>>)
       \o NonEmptyStripped(Tail(els))
\* ------------------------------------------------------------- strategies
None == <<"<None>">>

\* error texts, str(e)
ErrNotAvailable == <<"Selenium not available">>
ErrInvalidSession == <<"Message: ", "invalid session id">>
ErrTimeout == <<"Message: ", "timeout">>
ErrNoSuchElement == <<"Message: ", "no such element">>
ErrNoJustjoin == <<"'AdvancedJobScraper' object has no attribute '_scrape_justjoin_selenium'">>
ErrBadUrl == <<"Invalid IPv6 URL">>
ErrDriverGone == <<"HTTPConnectionPool(host='localhost'): Max retries exceeded">>

\* what a command raises on a session that is not live
SessionError(st) == IF st = "dead" THEN ErrInvalidSession ELSE ErrDriverGone

FailSel(err) == [success |-> FALSE, error |-> err]

\* skill_selectors of _scrape_pracuj_selenium
skill_selectors == <<"[data-test=chip-item]", ".skill-tag", ".technology-tag", ".badge">>

\* the results _scrape_pracuj_selenium can return on a live session showing
\* dom, whose current_url is cur
_scrape_pracuj_selenium(dom, cur) ==
  LET waited == Elems2(dom, "[data-test=text-offerTitle]", "h1")
      title == IF waited # <<>> THEN strip(waited[1])
               ELSE Or(_try_selectors(dom, <<"h1", ".offer-title", "[data-test*=title]">>), NA)
      company == Or(_try_selectors(dom, <<"[data-test=text-employer]", ".company-name",
                                          "[data-test*=company]", "h2">>), NA)
      location == Or(_try_selectors(dom, <<"[data-test=text-workingPlace]", ".location",
                                           "[data-test*=location]">>), NA)
      requirements == _extract_list_items(dom, <<"[data-test=section-requirements] li",
                                                 ".requirements li", ".requirement-item",
                                                 "[data-test*=requirement] li">>)
      description == Or(_try_selectors(dom, <<"[data-test=section-responsibilities]",
                                              ".job-description", ".offer-description",
                                              "[data-test*=description]">>), <<>>)
      salary == Or(_try_selectors(dom, <<"[data-test*=salary]", ".salary", ".wage",
                                         "[data-test*=wage]">>), NA)
      experience == _extract_experience_level(title \o <<SP>> \o join(requirements))
  IN {[success |-> TRUE, portal |-> "pracuj", url |-> cur, title |-> title,
       company |-> company, location |-> location, salary |-> salary,
       requirements |-> Take(requirements, 10), skills |-> Take(skills, 15),
       description |-> Prefix(description, 1500), experience_level |-> experience,
       raw_requirements |-> join(requirements)]
      : skills \in _extract_skills(dom, skill_selectors)}

\* the result of _scrape_nofluff_selenium on a live session showing dom
_scrape_nofluff_selenium(dom, cur) ==
  LET waited == Elems2(dom, "h1", ".posting-details-title")
      companies == Elems2(dom, ".company-name", ".posting-details-company")
      salaries == Elems2(dom, ".posting-salary", ".salary-range")
      skills == NonEmptyStripped(Elems(dom, ".posting-technologies .technology"))
      requirements == NonEmptyStripped(Elems(dom, ".posting-requirements li"))
  IN IF waited = <<>> THEN {FailSel(ErrTimeout)}
     ELSE IF companies = <<>> \/ salaries = <<>> THEN {FailSel(ErrNoSuchElement)}
     ELSE {[success |-> TRUE, portal |-> "nofluff", url |-> cur,
            title |-> strip(waited[1]), company |-> strip(companies[1]),
            location |-> <<"Remote/Warsaw">>, salary |-> strip(salaries[1]),
            requirements |-> requirements, skills |-> skills,
            description |-> join(requirements),
            experience_level |-> _extract_experience_level(strip(waited[1]))]}

RECURSIVE GenericTitleFrom(_, _, _)
GenericTitleFrom(soup, tags, i) ==
  IF i > Len(tags) THEN NA
  ELSE LET els == Elems(soup, tags[i]) IN
       IF els # <<>> /\ strip(els[1]) # <<>> THEN strip(els[1])
       ELSE GenericTitleFrom(soup, tags, i + 1)

RECURSIVE SkillsFromText(_, _)
SkillsFromText(text, i) ==
  IF i > Len(_get_tech_keywords) THEN <<>>
  ELSE (IF InText(_get_tech_keywords[i], text) THEN << <<_get_tech_keywords[i]>> >> ELSE <<>>)
       \o SkillsFromText(text, i + 1)

_extract_skills_from_text(text) ==
  IF text = <<>> THEN <<>> ELSE Take(SkillsFromText(text, 1), 15)

RECURSIVE AcceptedReqs(_)
\* req and len(req) > 10 and len(req) < 150
AcceptedReqs(pieces) ==
  IF pieces = <<>> THEN <<>>
  ELSE LET req == strip(Head(pieces)) IN
       (IF req # <<>> /\ CharLen(req) > 10 /\ CharLen(req) < 150 THEN <<req>> ELSE <<>>)
       \o AcceptedReqs(Tail(pieces))

_extract_requirements_from_text(soup) ==
  IF BodyText(soup) = <<>> THEN <<>>
  ELSE Take(AcceptedReqs(Elems(soup, "re:requirements")), 10)

_extract_generic_info(soup, url, portal) ==
  LET title == GenericTitleFrom(soup, <<"h1", "[data-test*=title]", ".job-title", ".offer-title">>, 1)
      page_text == BodyText(soup)
      requirements == _extract_requirements_from_text(soup)
  IN [success |-> TRUE, portal |-> portal, url |-> url, title |-> title,
      company |-> NA, location |-> NA, salary |-> NA,
      requirements |-> requirements,
      skills |-> _extract_skills_from_text(page_text),
      description |-> Prefix(page_text, 1000),
      experience_level |-> _extract_experience_level(title \o <<SP>> \o Prefix(page_text, 1000)),
      raw_requirements |-> join(requirements)]

\* str(url)
UrlText(url) == url.netloc \o url.path

\* the errors session.get / raise_for_status can raise for url; the reason
\* phrase of an HTTP error is the server's
FetchErrors(url) ==
  {<<"403", " Client Error: ", "Forbidden", " for url: ">> \o UrlText(url),
   <<"404", " Client Error: ", "Not Found", " for url: ">> \o UrlText(url),
   <<"400", " Client Error: ", "Invalid Session Id", " for url: ">> \o UrlText(url),
   <<"Connection refused">>}

FailReq(err, portal, url) == [success |-> FALSE, error |-> err, portal |-> portal, url |-> url]

\* pages
DomFull ==
  ("h1" :> << <<"Senior Python Developer">> >>) @@
  ("[data-test=text-employer]" :> << <<"Acme">> >>) @@
  (".company-name" :> << <<"Acme">> >>) @@
  ("[data-test=text-workingPlace]" :> << <<"Warszawa">> >>) @@
  ("[data-test=section-requirements] li" :> << <<"Min. 4 lata Python">> >>) @@
  (".posting-requirements li" :> << <<"Min. 4 lata Python">>, <<"Min. 4 lata Python">> >>) @@
  ("[data-test=chip-item]" :> << <<"Docker">> >>) @@
  (".posting-technologies .technology" :> << <<"Python">> >>) @@
  (".salary" :> << <<"15 000 PLN">> >>) @@
  (".salary-range" :> << <<"15 000 PLN">> >>) @@
  ("re:requirements" :> << <<"Min. 4 lata Python">>, <<"Acme">> >>) @@
  ("body" :> << <<"Senior Python Developer", SP, "Min. 4 lata Python", SP, "Acme",
                  SP, "Docker">> >>)

\* the title element is in the document and shows no text
DomHidden ==
  ("h1" :> << <<>> >>) @@
  (".company-name" :> << <<"Acme">> >>) @@
  (".salary-range" :> << <<"15 000 PLN">> >>) @@
  ("body" :> << <<"Acme", SP, "15 000 PLN">> >>)

\* no title element
DomBare == ("body" :> << <<"We build things">> >>)

NoDom == ("body" :> << <<>> >>)

Doms == {DomFull, DomHidden, DomBare}
Htmls == {DomFull, DomBare}
\* ------------------------------------------------------------------ state
VARIABLES
  scraper,   \* the module-level scraper (scraper_instance): instance id, 0 = None
  inst,      \* instance id -> the AdvancedJobScraper object
  session,   \* instance id -> the rendering session that instance created
  call,      \* call id -> a scrape_job invocation running in a thread
  batch,     \* the batch_scrape_jobs request of api.py
  ep,        \* call id -> a request to the scrape endpoint of main.py
  client     \* a program using the scraper as a library

vars == <<scraper, inst, session, call, batch, ep, client>>

Insts == 1..MaxInst

NoInst == [made |-> FALSE, ctor |-> FALSE, setup |-> "none", use_selenium |-> FALSE,
           driver |-> 0]
NoSession == [state |-> "none", url |-> NoUrl, dom |-> NoDom]
NoRes == [none |-> TRUE]
IdleCall == [pc |-> "idle", self |-> 0, url |-> NoUrl, portal |-> "", selres |-> NoRes,
             result |-> NoRes, fetched |-> NoDom, stages |-> <<>>]

\* the next unused instance id, MaxInst + 1 when none is left
NextInst ==
  IF \A i \in Insts : inst[i].made THEN MaxInst + 1
  ELSE CHOOSE i \in Insts : ~inst[i].made /\ \A j \in 1..(i - 1) : inst[j].made

SetupOutcomes == {"ok", "chrome_failed", "script_failed"}

\* _setup_selenium without "self.use_selenium = False" in the except branch
_setup_selenium_keeps_flag(self, o, n) ==
  CASE o = "ok" -> [self EXCEPT !.setup = o, !.driver = n]
    [] o = "chrome_failed" -> [self EXCEPT !.setup = o]
    [] o = "script_failed" -> [self EXCEPT !.setup = o, !.driver = n]

\* _setup_selenium on object self with id n: webdriver.Chrome() succeeds and
\* the script runs ("ok"), webdriver.Chrome() raises ("chrome_failed"), or
\* the driver is assigned and execute_script raises ("script_failed")
_setup_selenium(self, o, n) ==
  CASE o = "ok" -> [self EXCEPT !.setup = o, !.driver = n]
    [] o = "chrome_failed" -> [self EXCEPT !.setup = o, !.use_selenium = FALSE]
    [] o = "script_failed" -> [self EXCEPT !.setup = o, !.driver = n, !.use_selenium = FALSE]

\* AdvancedJobScraper(use_selenium, headless)
__init__(use_selenium, o, n) ==
  LET self == [made |-> TRUE, ctor |-> use_selenium, setup |-> "none",
               use_selenium |-> use_selenium, driver |-> 0]
  IN IF use_selenium THEN _setup_selenium(self, o, n) ELSE self

\* the session a new object holds after construction
SessionOf(obj) ==
  IF obj.driver # 0 THEN [state |-> "live", url |-> NoUrl, dom |-> NoDom] ELSE NoSession

\* the setup outcomes to consider for a constructor argument
OutcomesFor(use_selenium) == IF use_selenium THEN SetupOutcomes ELSE {"none"}

\* driver.quit() on a session in state st: the outcomes; the browser of a
\* live session may be found dead by quit
QuitOutcomes(st) == IF st = "none" THEN {"ok"} ELSE {"ok", "raises"}

\* ------------------------------------------------ scrape_job, step by step
\* scrape_job testing the portal only
UsesSelenium_ignores_flag(self, portal) ==
  portal \in {"pracuj", "nofluff", "justjoin"}

\* scrape_job: self.use_selenium and portal in ['pracuj', 'nofluff', 'justjoin']
UsesSelenium(self, portal) ==
  self.use_selenium /\ portal \in {"pracuj", "nofluff", "justjoin"}

InScrape == {"selenium", "extract", "requests"}
Finished == {"returned", "raised"}

\* the caller runs scraper.scrape_job(url) on instance i: the call record
\* after detect_portal and the choice of the first stage
Started(i, url) ==
  IF url.bad
    THEN [IdleCall EXCEPT !.pc = "raised", !.self = i, !.url = url,
                          !.result = [exception |-> ErrBadUrl]]
    ELSE [IdleCall EXCEPT !.self = i, !.url = url, !.portal = detect_portal(url),
                          !.pc = IF UsesSelenium(inst[i], detect_portal(url))
                                   THEN "selenium" ELSE "requests"]

\* scrape_with_selenium up to the end of driver.get(url)
SeleniumGet(c) ==
  /\ call[c].pc = "selenium"
  /\ LET i == call[c].self
         d == inst[i].driver
     IN IF d = 0
          THEN /\ call' = [call EXCEPT ![c].pc = "requests",
                                       ![c].selres = FailSel(ErrNotAvailable)]
               /\ UNCHANGED session
          ELSE /\ IF session[d].state # "live"
                    THEN /\ call' = [call EXCEPT ![c].pc = "requests",
                                                 ![c].stages = Append(@, "selenium"),
                                                 ![c].selres = FailSel(SessionError(session[d].state))]
                         /\ UNCHANGED session
                    ELSE \/ \E dom \in Doms :
                              /\ session' = [session EXCEPT ![d].url = call[c].url,
                                                            ![d].dom = dom]
                              /\ call' = [call EXCEPT ![c].pc = "extract",
                                                      ![c].stages = Append(@, "selenium")]
                         \/ /\ call' = [call EXCEPT ![c].pc = "requests",
                                                    ![c].stages = Append(@, "selenium"),
                                                    ![c].selres = FailSel(ErrTimeout)]
                            /\ UNCHANGED session
  /\ UNCHANGED <<scraper, inst, batch, ep, client>>

\* the results of the rest of scrape_with_selenium on session d
StrategyResults(d, url, portal) ==
  IF portal = "justjoin" THEN {FailSel(ErrNoJustjoin)}
  ELSE IF session[d].state # "live" THEN {FailSel(SessionError(session[d].state))}
  ELSE IF portal = "pracuj" THEN _scrape_pracuj_selenium(session[d].dom, session[d].url)
  ELSE IF portal = "nofluff" THEN _scrape_nofluff_selenium(session[d].dom, session[d].url)
  ELSE {_extract_generic_info(session[d].dom, url, portal)}

\* the portal strategy on the page the session shows now, then scrape_job's
\* test of result.get('success')
SeleniumExtract(c) ==
  /\ call[c].pc = "extract"
  /\ LET d == inst[call[c].self].driver IN
     /\ \E res \in StrategyResults(d, call[c].url, call[c].portal) :
          call' = [call EXCEPT ![c].selres = res,
                               ![c].stages = Append(@, "strategy"),
                               ![c].result = IF res.success THEN res ELSE @,
                               ![c].pc = IF res.success THEN "returned" ELSE "requests"]
  /\ UNCHANGED <<scraper, inst, session, batch, ep, client>>

\* _scrape_with_requests
Requests(c) ==
  /\ call[c].pc = "requests"
  /\ \/ \E html \in Htmls :
          call' = [call EXCEPT ![c].pc = "returned",
                               ![c].fetched = html,
                               ![c].stages = @ \o <<"fetch", "generic">>,
                               ![c].result = _extract_generic_info(html, call[c].url, call[c].portal)]
     \/ \E err \in FetchErrors(call[c].url) :
          call' = [call EXCEPT ![c].pc = "returned",
                               ![c].stages = Append(@, "fetch"),
                               ![c].result = FailReq(err, call[c].portal, call[c].url)]
  /\ UNCHANGED <<scraper, inst, session, batch, ep, client>>

\* one step of a thread that runs scrape_job
ScrapeStep(c) == SeleniumGet(c) \/ SeleniumExtract(c) \/ Requests(c)

\* the browser behind a live session crashes or its session expires; the
\* event is taken when a call is about to use the session (quit sees a death
\* through QuitOutcomes)
SessionDies(d) ==
  /\ session[d].state = "live"
  /\ \E c \in DOMAIN call :
       call[c].pc \in {"selenium", "extract"} /\ inst[call[c].self].driver = d
  /\ session' = [session EXCEPT ![d] = [NoSession EXCEPT !.state = "dead"]]
  /\ UNCHANGED <<scraper, inst, call, batch, ep, client>>
\* the outcomes of close() on instance i: driver.quit() is called when
\* self.driver is set
CloseOutcomes(i) ==
  IF inst[i].driver = 0 THEN {"ok"} ELSE QuitOutcomes(session[inst[i].driver].state)

\* close(): "if self.driver: self.driver.quit()": the state of the session
\* that receives the quit command, "none" when no command is sent
QuitTarget(i) ==
  IF inst[i].driver = 0 THEN "none" ELSE session[inst[i].driver].state

\* close() that returns without ending the browser
close_keeps_browser(i, q) == [inst |-> inst, session |-> session]

\* close() on instance i with outcome q of driver.quit(): the state it
\* leaves; close() raises when q = "raises".  self.driver stays set.
close(i, q) ==
  LET d == inst[i].driver IN
  [inst |-> inst,
   session |-> IF d = 0 \/ q = "raises" THEN session
               ELSE [session EXCEPT ![d] = [NoSession EXCEPT !.state = "quit"]]]

\* ------------------------------------------- the scraper used as a library
\* quit_on: the state of the session on which the last close() called
\* driver.quit(), "none" when it called none
IdleClient == [pc |-> "idle", ops |-> 0, closed |-> FALSE, quit_on |-> "none",
               urls |-> <<>>, results |-> <<>>]
NoBatch == [pc |-> "none"]
Calls == 1..NCalls

\* the URLs of batch requests
BatchUrls == {UPracuj, UOther, UBad}
UrlLists == UNION {[1..n -> BatchUrls \cup {UNofluff}] : n \in 0..MaxBatch}

\* the state after construction of instance n, the module-level scraper
Constructed(n, use_selenium, o) ==
  LET obj == __init__(use_selenium, o, n)
  IN /\ inst = [i \in Insts |-> IF i = n THEN obj ELSE NoInst]
     /\ session = [i \in Insts |-> IF i = n THEN SessionOf(obj) ELSE NoSession]

\* scraper = AdvancedJobScraper(use_selenium=..., headless=...)
InitLib ==
  /\ \E use_selenium \in BOOLEAN : \E o \in OutcomesFor(use_selenium) :
       Constructed(1, use_selenium, o)
  /\ scraper = 1
  /\ call = [c \in {1} |-> IdleCall]
  /\ batch = NoBatch
  /\ ep = <<>>
  /\ client = IdleClient

\* scraper.scrape_job(url)
CallScrapeJob ==
  /\ client.pc = "idle" /\ client.ops < MaxOps /\ scraper # 0
  /\ \E url \in Urls : call' = [call EXCEPT ![1] = Started(scraper, url)]
  /\ client' = [client EXCEPT !.pc = "scrape_job", !.ops = @ + 1]
  /\ UNCHANGED <<scraper, inst, session, batch, ep>>

ScrapeJobReturns ==
  /\ client.pc = "scrape_job" /\ call[1].pc \in Finished
  /\ client' = [client EXCEPT !.pc = "idle"]
  /\ call' = [call EXCEPT ![1] = IdleCall]
  /\ UNCHANGED <<scraper, inst, session, batch, ep>>

\* scraper.batch_scrape(urls)
CallBatchScrape ==
  /\ client.pc = "idle" /\ client.ops < MaxOps /\ scraper # 0
  /\ \E urls \in UrlLists :
       client' = [client EXCEPT !.pc = "batch_scrape", !.ops = @ + 1,
                                !.urls = urls, !.results = <<>>]
  /\ UNCHANGED <<scraper, inst, session, call, batch, ep>>

\* one turn of the loop of batch_scrape: result = self.scrape_job(url)
BatchScrapeCall ==
  /\ client.pc = "batch_scrape" /\ Len(client.results) < Len(client.urls)
  /\ call' = [call EXCEPT ![1] = Started(scraper, client.urls[Len(client.results) + 1])]
  /\ client' = [client EXCEPT !.pc = "batch_scrape_wait"]
  /\ UNCHANGED <<scraper, inst, session, batch, ep>>

\* results.append(result); an exception of scrape_job leaves batch_scrape
BatchScrapeAppend ==
  /\ client.pc = "batch_scrape_wait" /\ call[1].pc \in Finished
  /\ client' = IF call[1].pc = "raised"
                 THEN [client EXCEPT !.pc = "batch_scrape_raised"]
                 ELSE [client EXCEPT !.pc = "batch_scrape",
                                     !.results = Append(@, call[1].result)]
  /\ call' = [call EXCEPT ![1] = IdleCall]
  /\ UNCHANGED <<scraper, inst, session, batch, ep>>

\* return results
BatchScrapeReturns ==
  /\ client.pc = "batch_scrape" /\ Len(client.results) = Len(client.urls)
  /\ client' = [client EXCEPT !.pc = "batch_scrape_returned"]
  /\ UNCHANGED <<scraper, inst, session, call, batch, ep>>

\* the caller takes the list, or the exception, of batch_scrape
BatchScrapeDone ==
  /\ client.pc \in {"batch_scrape_returned", "batch_scrape_raised"}
  /\ client' = [client EXCEPT !.pc = "idle", !.urls = <<>>, !.results = <<>>]
  /\ UNCHANGED <<scraper, inst, session, call, batch, ep>>

\* scraper.close()
CallClose ==
  /\ client.pc = "idle" /\ client.ops < MaxOps /\ scraper # 0
  /\ \E q \in CloseOutcomes(scraper) :
       /\ inst' = close(scraper, q).inst
       /\ session' = close(scraper, q).session
  /\ client' = [client EXCEPT !.ops = @ + 1, !.closed = TRUE,
                              !.quit_on = QuitTarget(scraper)]
  /\ UNCHANGED <<scraper, call, batch, ep>>

NextLib ==
  \/ CallScrapeJob
  \/ ScrapeJobReturns
  \/ CallBatchScrape
  \/ BatchScrapeCall
  \/ BatchScrapeAppend
  \/ BatchScrapeReturns
  \/ BatchScrapeDone
  \/ CallClose
  \/ SeleniumGet(1)
  \/ SeleniumExtract(1)
  \/ Requests(1)
  \/ \E d \in Insts : SessionDies(d)

SpecLib == InitLib /\ [][NextLib]_vars
\* ------------------------------------------------- properties: the library
CallIds == DOMAIN call

HasH1(html) == Elems(html, "h1") # <<>> /\ strip(Elems(html, "h1")[1]) # <<>>

SetupFailed(i) == inst[i].made /\ inst[i].ctor /\ inst[i].setup \in {"chrome_failed", "script_failed"}

\* C6 (as claimed): every result with success=true that scrape_job returns,
\* from any stage, has a non-empty title.
C6_SuccessHasTitle ==
  \A c \in CallIds :
    call[c].pc = "returned" /\ call[c].result.success
      => Get(call[c].result, "title", <<>>) # <<>>

\* C7: on a scraper whose session setup failed at construction with
\* use_selenium=true, no scrape_job call enters the rendering stage or
\* navigates or queries a session; each goes to the fetch path, and returns
\* success=true with the h1 text as title when the fetched HTML has an h1.
C7_SetupFailureDegrades ==
  \A i \in Insts : SetupFailed(i) =>
    /\ session[i].url = NoUrl /\ session[i].dom = NoDom
    /\ \A c \in CallIds : call[c].self = i =>
         /\ call[c].pc \notin {"selenium", "extract"}
         /\ "selenium" \notin Range(call[c].stages)
         /\ call[c].pc = "returned" => call[c].stages[1] = "fetch"
         /\ call[c].pc = "returned" /\ HasH1(call[c].fetched) =>
              /\ call[c].result.success
              /\ call[c].result.title = strip(Elems(call[c].fetched, "h1")[1])

C7_Witness ==
  \E c \in CallIds :
    /\ call[c].pc = "returned" /\ call[c].self # 0
    /\ SetupFailed(call[c].self)
    /\ call[c].portal = "pracuj"
    /\ HasH1(call[c].fetched) /\ call[c].result.success

\* C8: a scraper constructed with use_selenium=false never creates,
\* navigates, queries or quits a rendering session, whatever scrape_job,
\* batch_scrape and close calls are made; every scrape_job runs the fetch
\* path and, when the fetch succeeds, the generic extractor.
C8_NoRenderingWhenDisabled ==
  \A i \in Insts : inst[i].made /\ ~inst[i].ctor =>
    /\ session[i] = NoSession
    /\ inst[i].driver = 0
    /\ \A c \in CallIds : call[c].self = i =>
         /\ call[c].pc \notin {"selenium", "extract"}
         /\ call[c].stages \in {<<>>, <<"fetch">>, <<"fetch", "generic">>}
         /\ call[c].pc = "returned" => call[c].stages # <<>>
         /\ call[c].pc = "returned" /\ call[c].result.success
              => call[c].stages = <<"fetch", "generic">>

C8_Witness ==
  /\ inst[1].made /\ ~inst[1].ctor /\ client.closed
  /\ client.pc = "batch_scrape_wait" /\ Len(client.results) > 0
  /\ call[1].pc = "returned" /\ call[1].portal = "pracuj"
  /\ call[1].stages = <<"fetch", "generic">>

\* C11 (as claimed): close() on a scraper whose session never opened sends
\* no command and leaves the state alone, and a close() after a completed
\* close() does not operate on the session that was already released.
C11_CloseIdempotent ==
  client.closed =>
    /\ inst[1].driver = 0 => client.quit_on = "none" /\ session[1] = NoSession
    /\ client.quit_on # "quit"

\* C29 (as claimed): after close() has released the rendering session, no
\* later scrape_job call on that scraper navigates or queries the released
\* session; the call uses the non-rendering fetch path only.
C29_ReleasedSessionUnused ==
  \A c \in CallIds :
    /\ call[c].self # 0 /\ inst[call[c].self].driver # 0
    /\ session[inst[call[c].self].driver].state = "quit"
    => "selenium" \notin Range(call[c].stages)

\* the portal strategy of call c ran on a loaded page and returned failure
\* for a reason other than the loss of the session
StrategyFailedOnPage(c) ==
  /\ Len(call[c].stages) >= 2 /\ call[c].stages[2] = "strategy"
  /\ ~call[c].selres.success
  /\ call[c].selres.error \in {ErrTimeout, ErrNoSuchElement, ErrNoJustjoin}

\* C13 (as claimed): when the page loaded in the rendering session and the
\* portal strategy returned failure, scrape_job goes on with the generic
\* extractor over the rendered page and does not use the non-rendering fetch.
C13_RenderedFallback ==
  \A c \in CallIds :
    call[c].pc = "returned" /\ StrategyFailedOnPage(c)
      => "fetch" \notin Range(call[c].stages)

\* call c got past driver.get and scrape_with_selenium went on to the strategy
\* of its portal, the session staying usable
StrategyRan(c) ==
  /\ Len(call[c].stages) >= 2 /\ call[c].stages[2] = "strategy"
  /\ call[c].selres.success
       \/ call[c].selres.error \notin {ErrInvalidSession, ErrDriverGone}

\* C25 (as claimed): for each portal that scrape_job routes to the rendering
\* session (pracuj, nofluff, justjoin), scrape_with_selenium, after a
\* successful navigation, runs the portal's own strategy on the loaded page
\* and returns the strategy's record: a record of that portal, or the
\* failure of a wait or a lookup on the loaded page.
C25_PortalStrategyRuns ==
  \A c \in CallIds :
    StrategyRan(c) /\ call[c].portal \in {"pracuj", "nofluff", "justjoin"}
      => IF call[c].selres.success
           THEN call[c].selres.portal = call[c].portal
           ELSE call[c].selres.error \in {ErrTimeout, ErrNoSuchElement}

\* C14 (as claimed): scrape_job returns a result object for every URL
\* string, malformed ones included, and never raises to its caller.
C14_NeverRaises == \A c \in CallIds : call[c].pc # "raised"

\* the selectors a portal strategy reads the title from
TitleSelectors(portal) ==
  IF portal = "pracuj"
    THEN {"[data-test=text-offerTitle]", "h1", ".offer-title", "[data-test*=title]"}
    ELSE {"h1", ".posting-details-title"}

\* title is the non-empty text of a title element of the page
TitleRecovered(dom, portal, title) ==
  /\ title # <<>>
  /\ \E sel \in TitleSelectors(portal) :
       Elems(dom, sel) # <<>> /\ strip(Elems(dom, sel)[1]) = title

\* C15 (as claimed): a portal strategy returns success=true only if it
\* recovered a title from the page; on a page where no selector yields a
\* title it returns success=false, so that scrape_job goes on to the
\* fallback stage.
C15_StrategySuccessNeedsTitle ==
  \A c \in CallIds :
    /\ call[c].pc = "returned"
    /\ call[c].stages = <<"selenium", "strategy">>
    /\ call[c].portal \in {"pracuj", "nofluff"}
    => TitleRecovered(session[inst[call[c].self].driver].dom, call[c].portal,
                      call[c].result.title)

NoDuplicates(s) == \A i, j \in DOMAIN s : s[i] = s[j] => i = j

\* C16 (as claimed): in every successful result, from any stage, skills has
\* at most 15 entries, requirements has at most 10 entries, and neither
\* list contains the same string twice.
C16_ListsCappedAndDistinct ==
  \A c \in CallIds :
    call[c].pc = "returned" /\ call[c].result.success =>
      /\ Len(call[c].result.skills) <= 15
      /\ Len(call[c].result.requirements) <= 10
      /\ NoDuplicates(call[c].result.skills)
      /\ NoDuplicates(call[c].result.requirements)

RECURSIVE FirstOccurrences(_, _)
\* s without the entries that occur in seen or earlier in s
FirstOccurrences(s, seen) ==
  IF s = <<>> THEN <<>>
  ELSE IF Head(s) \in seen THEN FirstOccurrences(Tail(s), seen)
  ELSE <<Head(s)>> \o FirstOccurrences(Tail(s), seen \cup {Head(s)})

\* C17 (as claimed): the skills list a portal strategy returns keeps the
\* discovery order: it is the first 15 entries of the discovered skills
\* (selector matches, then lexicon keywords) without later duplicates.
C17_SkillsKeepOrder ==
  \A c \in CallIds :
    /\ call[c].pc = "returned"
    /\ call[c].stages = <<"selenium", "strategy">>
    /\ call[c].portal = "pracuj"
    => call[c].result.skills =
         Take(FirstOccurrences(
                DiscoveredSkills(session[inst[call[c].self].driver].dom, skill_selectors),
                {}), 15)
\* ------------------------------------------- api.py: batch_scrape_jobs
MaxUrlsPerBatch == 20
DefaultMaxConcurrent == 3

\* the values of max_concurrent a request can carry
MaxConcurrents == (0 - 1)..DefaultMaxConcurrent

Now == <<"now">>

\* create_job_data: a JobData object (it has no method get)
create_job_data(r) ==
  [class |-> "JobData",
   success |-> Get(r, "success", FALSE),
   portal |-> Get(r, "portal", "unknown"),
   url |-> Get(r, "url", NoUrl),
   title |-> Get(r, "title", NA),
   company |-> Get(r, "company", NA),
   location |-> Get(r, "location", NA),
   salary |-> Get(r, "salary", None),
   requirements |-> Get(r, "requirements", <<>>),
   skills |-> Get(r, "skills", <<>>),
   description |-> Get(r, "description", <<>>),
   experience_level |-> Get(r, "experience_level", <<"Unknown">>),
   scraped_at |-> Now]

IsJobData(r) == "class" \in DOMAIN r
IsException(r) == "exception" \in DOMAIN r

\* asyncio.Semaphore(request.max_concurrent) with one permit too many
SemaphoreValue_plus_one(max_concurrent) == max_concurrent + 1

\* asyncio.Semaphore(request.max_concurrent): the initial number of permits
SemaphoreValue(max_concurrent) == max_concurrent

Tasks == 1..Len(batch.urls)

\* a request of one URL more than the handler accepts
LongUrls == [i \in 1..(MaxUrlsPerBatch + 1) |-> UOther]

\* the handler without the test of len(request.urls)
TooManyUrls_never(urls) == FALSE

\* len(request.urls) > 20
TooManyUrls(urls) == Len(urls) > MaxUrlsPerBatch

\* lifespan has made scraper_instance; a request has arrived
InitBatch ==
  /\ \E o \in SetupOutcomes : Constructed(1, TRUE, o)
  /\ scraper = 1
  /\ call = [c \in 1..MaxBatch |-> IdleCall]
  /\ \E urls \in UrlLists \cup {LongUrls} : \E k \in MaxConcurrents :
       batch = [pc |-> "request", urls |-> urls, max_concurrent |-> k, sem |-> 0,
                results |-> [c \in 1..Len(urls) |-> NoRes],
                processed |-> <<>>, response |-> NoRes]
  /\ ep = <<>>
  /\ client = IdleClient

\* the handler up to asyncio.gather(*tasks)
BatchAccept ==
  /\ batch.pc = "request"
  /\ IF scraper = 0
       THEN /\ batch' = [batch EXCEPT !.pc = "responded",
                           !.response = [status |-> 503, detail |-> <<"Scraper not initialized">>]]
            /\ UNCHANGED call
     ELSE IF TooManyUrls(batch.urls)
       THEN /\ batch' = [batch EXCEPT !.pc = "responded",
                           !.response = [status |-> 400, detail |-> <<"Maximum 20 URLs per batch">>]]
            /\ UNCHANGED call
     ELSE IF SemaphoreValue(batch.max_concurrent) < 0
       THEN \* Semaphore raises ValueError, caught by the handler
            /\ batch' = [batch EXCEPT !.pc = "responded",
                           !.response = [status |-> 500,
                                         detail |-> <<"Semaphore initial value must be >= 0">>]]
            /\ UNCHANGED call
     ELSE /\ batch' = [batch EXCEPT !.pc = "gather",
                                    !.sem = SemaphoreValue(batch.max_concurrent)]
          /\ call' = [c \in DOMAIN call |->
                        IF c \in Tasks THEN [IdleCall EXCEPT !.pc = "pending"] ELSE call[c]]
  /\ UNCHANGED <<scraper, inst, session, ep, client>>

\* scrape_single: "async with semaphore", then run_in_executor; the tasks
\* reach the semaphore in the order of the list and waiters are woken in order
TaskAcquire(c) ==
  /\ batch.pc = "gather" /\ c \in Tasks
  /\ call[c].pc = "pending"
  /\ batch.sem > 0
  /\ \A d \in 1..(c - 1) : call[d].pc # "pending"
  /\ batch' = [batch EXCEPT !.sem = @ - 1]
  /\ call' = [call EXCEPT ![c] = Started(scraper, batch.urls[c])]
  /\ UNCHANGED <<scraper, inst, session, ep, client>>

\* scrape_single after the await: create_job_data(result) or the exception,
\* and the release of the semaphore
TaskFinish(c) ==
  /\ batch.pc = "gather" /\ c \in Tasks
  /\ call[c].pc \in Finished
  /\ batch' = [batch EXCEPT !.sem = @ + 1,
                            !.results[c] = IF call[c].pc = "raised" THEN call[c].result
                                           ELSE create_job_data(call[c].result)]
  /\ call' = [call EXCEPT ![c] = [IdleCall EXCEPT !.pc = "done"]]
  /\ UNCHANGED <<scraper, inst, session, ep, client>>

\* processed_results of the handler
Processed(results, urls) ==
  [i \in 1..Len(urls) |->
     IF IsException(results[i])
       THEN [success |-> FALSE, url |-> urls[i], error |-> results[i].exception,
             scraped_at |-> Now]
       ELSE results[i]]

\* sum(1 for r in processed_results if r.get('success', False))
Successful(rs) == Cardinality({i \in DOMAIN rs : Get(rs[i], "success", FALSE)})

\* sum(1 for r in processed_results if not r.get('success', True))
Failed(rs) == Cardinality({i \in DOMAIN rs : ~Get(rs[i], "success", TRUE)})

\* the handler after gather: the summary calls r.get on every element, which
\* raises AttributeError on a JobData; the handler answers 500 then
BatchRespond ==
  /\ batch.pc = "gather"
  /\ \A c \in Tasks : call[c].pc = "done"
  /\ LET processed == Processed(batch.results, batch.urls)
     IN batch' = [batch EXCEPT
          !.pc = "responded",
          !.processed = processed,
          !.response =
            IF \E i \in DOMAIN processed : IsJobData(processed[i])
              THEN [status |-> 500, detail |-> <<"'JobData' object has no attribute 'get'">>]
              ELSE [status |-> 200,
                    body |-> [total_requested |-> Len(batch.urls),
                              successful |-> Successful(processed),
                              failed |-> Failed(processed),
                              results |-> processed]]]
  /\ UNCHANGED <<scraper, inst, session, call, ep, client>>

NextBatch ==
  \/ BatchAccept
  \/ \E c \in 1..MaxBatch : TaskAcquire(c)
  \/ \E c \in 1..MaxBatch : SeleniumGet(c)
  \/ \E c \in 1..MaxBatch : SeleniumExtract(c)
  \/ \E c \in 1..MaxBatch : Requests(c)
  \/ \E c \in 1..MaxBatch : TaskFinish(c)
  \/ BatchRespond
  \/ \E d \in Insts : SessionDies(d)

SpecBatch == InitBatch /\ [][NextBatch]_vars

\* what the event loop and the executor threads do when they can: the handler
\* goes on, a task at a free gate is admitted, a running scrape call makes
\* its next step and returns, a finished task is collected
BatchProgress ==
  \/ BatchAccept
  \/ \E c \in 1..MaxBatch : TaskAcquire(c)
  \/ \E c \in 1..MaxBatch : SeleniumGet(c)
  \/ \E c \in 1..MaxBatch : SeleniumExtract(c)
  \/ \E c \in 1..MaxBatch : Requests(c)
  \/ \E c \in 1..MaxBatch : TaskFinish(c)
  \/ BatchRespond

\* the batch endpoint with an event loop that keeps running and scrape calls
\* that return
SpecBatchLive == SpecBatch /\ WF_vars(BatchProgress)
\* --------------------------------------------------- properties: the batch
InFlight == {c \in CallIds : call[c].pc \in InScrape}

\* C1: while a batch with max_concurrent = k >= 1 runs, at most k of its
\* calls of scraper.scrape_job are in flight.
C1_AtMostKInFlight ==
  batch.pc = "gather" /\ batch.max_concurrent >= 1
    => Cardinality(InFlight) <= batch.max_concurrent

C1_Witness ==
  /\ batch.pc = "gather" /\ batch.max_concurrent >= 1
  /\ Cardinality(InFlight) = batch.max_concurrent
  /\ \E c \in Tasks : call[c].pc = "pending"

Accepted ==
  /\ batch.pc = "responded" /\ batch.max_concurrent >= 1
  /\ Len(batch.urls) <= MaxUrlsPerBatch

\* C2 (as claimed): a batch of n URLs returns a result sequence of length n
\* in which result i is the result for urls[i].
C2_AlignedResults ==
  Accepted =>
    /\ batch.response.status = 200
    /\ Len(batch.response.body.results) = Len(batch.urls)
    /\ \A i \in Tasks : batch.response.body.results[i].url = batch.urls[i]

ItemFailed(r) == IsException(r) \/ ~Get(r, "success", FALSE)

\* C3 (as claimed): when the pipeline fails or raises for a URL, the batch
\* does not abort: it returns a sequence in which that index has
\* success=false with the error and every index reports its own outcome.
C3_FailureIsolated ==
  Accepted /\ (\E i \in Tasks : ItemFailed(batch.results[i])) =>
    /\ batch.response.status = 200
    /\ Len(batch.response.body.results) = Len(batch.urls)
    /\ \A i \in Tasks :
         LET r == batch.response.body.results[i] IN
         /\ Get(r, "success", FALSE) = ~ItemFailed(batch.results[i])
         /\ ItemFailed(batch.results[i]) => Get(r, "error", <<>>) # <<>>

\* the calls that operate the rendering session d: navigated, extraction
\* not finished
Operating(d) == {c \in CallIds : call[c].pc = "extract" /\ inst[call[c].self].driver = d}

\* C4 (as claimed): at most one in-flight scrape call operates the
\* rendering session of a scraper instance at any time.
C4_SessionSerialized == \A d \in Insts : Cardinality(Operating(d)) <= 1

\* C28 (as claimed): when several scrape calls run concurrently on one
\* scraper instance, every rendering-backed result is extracted from the page
\* loaded for its own URL: the current URL a strategy recorded is the URL of
\* its call.
C28_ResultOfOwnPage ==
  \A c \in CallIds :
    /\ call[c].pc = "returned"
    /\ Get(call[c].selres, "success", FALSE)
    => call[c].selres.url = call[c].url

ContentDefaults ==
  [title |-> NA, company |-> NA, location |-> NA, salary |-> None,
   requirements |-> <<>>, skills |-> <<>>, description |-> <<>>,
   experience_level |-> <<"Unknown">>]

FailureWellFormed(r) ==
  /\ Get(r, "error", <<>>) # <<>>
  /\ \A f \in DOMAIN ContentDefaults : f \in DOMAIN r => r[f] = ContentDefaults[f]

\* C5 (as claimed): every result with success=false, returned by scrape_job
\* or placed in a batch result sequence, has a non-empty error and all
\* content fields absent or at their defaults.
C5_FailureHasError ==
  /\ \A c \in CallIds :
       call[c].pc = "returned" /\ ~call[c].result.success => FailureWellFormed(call[c].result)
  /\ \A i \in DOMAIN batch.processed :
       ~batch.processed[i].success => FailureWellFormed(batch.processed[i])

\* C22: a batch request with more than 20 URLs is answered with an input
\* error (400) and no scrape call is ever started for it; the scraper and
\* its session stay as construction left them.
C22_OversizedBatchRejected ==
  Len(batch.urls) > 20 =>
    /\ batch.pc \in {"request", "responded"}
    /\ batch.pc = "responded" =>
         batch.response = [status |-> 400, detail |-> <<"Maximum 20 URLs per batch">>]
    /\ \A c \in DOMAIN call : call[c] = IdleCall
    /\ scraper = 1
    /\ session = [i \in Insts |-> IF i = 1 THEN SessionOf(inst[1]) ELSE NoSession]

C22_Witness ==
  /\ Len(batch.urls) > 20 /\ batch.pc = "responded"
  /\ batch.response.status = 400 /\ session[1].state = "live"

\* the permits of the gate: free ones and those held by admitted calls
Permits == batch.sem + Cardinality({c \in CallIds : call[c].pc \in InScrape \cup Finished})

\* C23 (as claimed): whatever max_concurrent the caller supplies (0 and
\* negative values included), the gate of a running batch admits between 1
\* and a fixed maximum of calls; the maximum is taken as the largest batch.
C23_GateValidated ==
  batch.pc = "gather" => Permits >= 1 /\ Permits <= MaxUrlsPerBatch
\* C30 (as claimed): for every accepted batch whose scrape tasks have all
\* finished, normally or with an exception, the handler returns a summary in
\* which total_requested is the number of URLs, successful is the number of
\* results with success = true, and successful + failed = total_requested.
C30_SummaryCounts ==
  Accepted =>
    /\ batch.response.status = 200
    /\ LET body == batch.response.body IN
       /\ body.total_requested = Len(batch.urls)
       /\ body.successful =
            Cardinality({i \in Tasks : ~IsException(batch.results[i])
                                        /\ Get(batch.results[i], "success", FALSE)})
       /\ body.successful + body.failed = body.total_requested

\* C26 (as claimed): every batch request the handler takes on (at most 20
\* URLs, any max_concurrent) eventually completes: as each scrape call
\* returns, every URL's scrape is eventually admitted by the gate and the
\* handler answers.
C26_BatchCompletes ==
  (batch.pc = "gather") ~> (batch.pc = "responded")

\* ------------------------------------------- main.py: the scrape endpoint
IdleEp == [pc |-> "idle", url |-> NoUrl, error_msg |-> <<>>, selerr |-> <<>>,
           recreated |-> 0, retried |-> 0, last |-> NoRes, response |-> NoRes]

\* lifespan: scraper = AdvancedJobScraper(use_selenium=True, headless=True);
\* scraper is None (its value at import) when no object was constructed
InitMain ==
  /\ \/ /\ \E o \in SetupOutcomes : Constructed(1, TRUE, o)
        /\ scraper = 1
     \/ /\ inst = [i \in Insts |-> NoInst]
        /\ session = [i \in Insts |-> NoSession]
        /\ scraper = 0
  /\ call = [c \in Calls |-> IdleCall]
  /\ ep = [c \in Calls |-> IdleEp]
  /\ batch = NoBatch
  /\ client = IdleClient

\* reinitialize_scraper() with outcome q of the old driver's quit and
\* outcome o of the new object's setup: the return value and the state
reinitialize_scraper(q, o) ==
  LET closed == IF scraper = 0
                  THEN [inst |-> inst, session |-> session]
                  ELSE close(scraper, q)
      n == NextInst
      obj == __init__(TRUE, o, n)
  IN IF scraper # 0 /\ q = "raises"
       THEN [ok |-> FALSE, scraper |-> scraper, inst |-> closed.inst,
             session |-> closed.session]
       ELSE [ok |-> TRUE, scraper |-> n,
             inst |-> [closed.inst EXCEPT ![n] = obj],
             session |-> [closed.session EXCEPT ![n] = SessionOf(obj)]]

ReinitOutcomes == IF scraper = 0 THEN {"ok"} ELSE CloseOutcomes(scraper)

\* the handler's position after a retry that loops back to the error test
AwaitRetry_loops == "first"

\* the handler's position while it awaits the retried scrape_job
AwaitRetry == "retry"

\* '403' in error_msg, then the HTTPException
FailureResponse(error_msg) ==
  IF \E i \in DOMAIN error_msg : "403" \in Occurs(error_msg[i])
    THEN [status |-> 400, detail |-> <<"Website blocked the request.">>]
    ELSE [status |-> 400, detail |-> <<"Scraping failed: ">> \o error_msg]

\* return create_job_data(result): the body is ResponseBody
OkResponse(result) == [status |-> 200, detail |-> <<>>]

ErrorResponse(exc) == [status |-> 500, detail |-> <<"Internal scraping error: ">> \o exc]

\* the handler up to the first run_in_executor
EpBegin(c) ==
  /\ ep[c].pc = "idle"
  /\ \E url \in BatchUrls :
       IF scraper = 0
         THEN \E o \in SetupOutcomes :
                LET r == reinitialize_scraper("ok", o) IN
                /\ NextInst <= MaxInst
                /\ scraper' = r.scraper /\ inst' = r.inst
                /\ session' = r.session
                /\ call' = [call EXCEPT ![c] = Started(r.scraper, url)]
                /\ ep' = [ep EXCEPT ![c].pc = "first", ![c].url = url]
         ELSE /\ call' = [call EXCEPT ![c] = Started(scraper, url)]
              /\ ep' = [ep EXCEPT ![c].pc = "first", ![c].url = url]
              /\ UNCHANGED <<scraper, inst, session>>
  /\ UNCHANGED <<batch, client>>

\* the handler after the first scrape_job
EpAfterFirst(c) ==
  /\ ep[c].pc = "first" /\ call[c].pc \in Finished
  /\ LET result == call[c].result
         error_msg == Get(result, "error", <<"Unknown error">>)
         seen == [ep[c] EXCEPT !.last = result,
                               !.selerr = Get(call[c].selres, "error", <<>>)]
     IN IF call[c].pc = "raised"
          THEN /\ ep' = [ep EXCEPT ![c] = [seen EXCEPT !.pc = "responded",
                                             !.response = ErrorResponse(result.exception)]]
               /\ call' = [call EXCEPT ![c] = IdleCall]
               /\ UNCHANGED <<scraper, inst, session>>
        ELSE IF result.success
          THEN /\ ep' = [ep EXCEPT ![c] = [seen EXCEPT !.pc = "responded",
                                             !.response = OkResponse(result)]]
               /\ call' = [call EXCEPT ![c] = IdleCall]
               /\ UNCHANGED <<scraper, inst, session>>
        ELSE IF InText("invalid session id", error_msg)
          THEN \E q \in ReinitOutcomes : \E o \in SetupOutcomes :
                 LET r == reinitialize_scraper(q, o) IN
                 /\ q = "ok" => NextInst <= MaxInst
                 /\ scraper' = r.scraper /\ inst' = r.inst
                 /\ session' = r.session
                 /\ IF r.ok
                      THEN /\ call' = [call EXCEPT ![c] = Started(r.scraper, ep[c].url)]
                           /\ ep' = [ep EXCEPT ![c] =
                                       [seen EXCEPT !.pc = AwaitRetry,
                                                    !.error_msg = error_msg,
                                                    !.recreated = @ + 1,
                                                    !.retried = @ + 1]]
                      ELSE /\ call' = [call EXCEPT ![c] = IdleCall]
                           /\ ep' = [ep EXCEPT ![c] =
                                       [seen EXCEPT !.pc = "responded",
                                                    !.error_msg = error_msg,
                                                    !.response = FailureResponse(error_msg)]]
          ELSE /\ ep' = [ep EXCEPT ![c] = [seen EXCEPT !.pc = "responded",
                                             !.error_msg = error_msg,
                                             !.response = FailureResponse(error_msg)]]
               /\ call' = [call EXCEPT ![c] = IdleCall]
               /\ UNCHANGED <<scraper, inst, session>>
  /\ UNCHANGED <<batch, client>>

\* the handler after the retried scrape_job
EpAfterRetry(c) ==
  /\ ep[c].pc = "retry" /\ call[c].pc \in Finished
  /\ LET result == call[c].result IN
     ep' = [ep EXCEPT ![c].pc = "responded", ![c].last = result,
                      ![c].response =
                        IF call[c].pc = "raised" THEN ErrorResponse(result.exception)
                        ELSE IF result.success THEN OkResponse(result)
                        ELSE FailureResponse(ep[c].error_msg)]
  /\ call' = [call EXCEPT ![c] = IdleCall]
  /\ UNCHANGED <<scraper, inst, session, batch, client>>

\* the body of a 200 response
ResponseBody(c) == create_job_data(ep[c].last)

\* the response is sent and the handler's frame is gone
EpReturn(c) ==
  /\ ep[c].pc = "responded"
  /\ ep' = [ep EXCEPT ![c] = [IdleEp EXCEPT !.pc = "done",
                                           !.recreated = ep[c].recreated,
                                           !.retried = ep[c].retried]]
  /\ UNCHANGED <<scraper, inst, session, call, batch, client>>

NextMain ==
  \/ \E c \in Calls : EpBegin(c)
  \/ \E c \in Calls : EpAfterFirst(c)
  \/ \E c \in Calls : EpAfterRetry(c)
  \/ \E c \in Calls : EpReturn(c)
  \/ \E c \in Calls : SeleniumGet(c)
  \/ \E c \in Calls : SeleniumExtract(c)
  \/ \E c \in Calls : Requests(c)
  \/ \E d \in Insts : SessionDies(d)

SpecMain == InitMain /\ [][NextMain]_vars

\* ----------------------------------------------- properties: the endpoint
\* C9 (as claimed): when the rendering-backed extraction of a scrape call
\* fails with "invalid session id", the session is torn down and recreated
\* once and the scrape is retried once on the new session.
C9_InvalidSessionRecovered ==
  \A c \in DOMAIN ep :
    ep[c].pc = "responded" /\ InText("invalid session id", ep[c].selerr)
      => ep[c].recreated = 1 /\ ep[c].retried = 1

\* C10: within one call of the scrape endpoint the session is recreated at
\* most once after a session-invalidated failure and the scrape is retried
\* at most once, also when the retry fails with the same error.
C10_AtMostOneRecreation ==
  \A c \in DOMAIN ep : ep[c].recreated <= 1 /\ ep[c].retried <= 1

\* C12: after any sequence of construct, scrape, reinitialize_scraper and
\* close operations every live rendering session is the one held by the
\* scraper instance in use, so an instance holds at most one live session
\* and no session stays live without an owner.
C12_LiveSessionOwned ==
  \A d \in Insts : session[d].state = "live" =>
    /\ scraper # 0 /\ inst[scraper].driver = d
    /\ Cardinality({i \in Insts : inst[i].made /\ inst[i].driver = d}) = 1

C12_Witness ==
  /\ scraper = 2 /\ inst[1].driver = 1 /\ session[1].state = "quit"
  /\ inst[2].driver = 2 /\ session[2].state = "live"

Blocked == <<"Website blocked the request.">>

\* C21 (as claimed): the scrape endpoint answers with the anti-bot-block
\* error exactly when the non-rendering fetch failed with HTTP status 403;
\* every other failure is reported as a generic scraping failure.
C21_BlockedIffStatus403 ==
  \A c \in DOMAIN ep :
    ep[c].pc = "responded" /\ ep[c].response.status = 400 =>
      (ep[c].response.detail = Blocked
         <=> ep[c].error_msg # <<>> /\ ep[c].error_msg[1] = "403")

\* C27 (as claimed): reinitialize_scraper never closes a rendering session
\* while a scrape call that started on it is in flight: no call that is
\* between its start and the end of its rendering stage runs on a session
\* that was quit.
C27_NoQuitUnderCall ==
  \A c \in Calls :
    call[c].pc \in {"selenium", "extract"} /\ inst[call[c].self].driver # 0
      => session[inst[call[c].self].driver].state # "quit"

C10_Witness ==
  \E c \in DOMAIN ep :
    /\ ep[c].pc = "responded" /\ ep[c].recreated = 1 /\ ep[c].retried = 1
    /\ ~Get(ep[c].last, "success", TRUE)
    /\ InText("invalid session id", Get(ep[c].last, "error", <<>>))
\* ------------------------------------------- the functions, called alone
\* the texts given to the experience classifier
TextTokens == {"Senior Python Developer", "Junior Java Intern", "Mid/Regular",
               "Team Lead", "international", "We build things", SP}
Texts == UNION {[1..n -> TextTokens] : n \in 0..MaxText}

\* the network locations of the URLs given to detect_portal; urlparse puts
\* all of "userinfo@host" in netloc
NetlocTokens == {"www.", "pracuj.pl", "PRACUJ.PL", "nofluffjobs.com", "justjoin.it",
                 "indeed.com", "bulldogjob.pl", "example.com", "user@"}
Netlocs == UNION {[1..n -> NetlocTokens] : n \in 0..MaxNetloc}
FnUrls == {[netloc |-> n, path |-> <<"/job/2">>, bad |-> FALSE] : n \in Netlocs} \cup {UBad}

\* req_selectors of _scrape_pracuj_selenium
req_selectors == <<"[data-test=section-requirements] li", ".requirements li",
                   ".requirement-item", "[data-test*=requirement] li">>

\* a page whose requirements are found by two of the selectors
DomLists ==
  ("[data-test=section-requirements] li" :>
      << <<"Min. 4 lata Python">>, <<"Acme">>, <<"Senior Python Developer">> >>) @@
  (".requirements li" :> << <<"We build things">> >>) @@
  ("body" :> << <<"Min. 4 lata Python", SP, "We build things">> >>)

\* the pages _extract_list_items is called on
ListDoms == {DomLists, DomFull, DomBare}

\* the reads that raise: any of the first elements of the first selectors
Stales == SUBSET ((1..2) \X (1..3))

\* the caller holds an AdvancedJobScraper made without a session and the
\* argument of one call
InitFn ==
  /\ Constructed(1, FALSE, "none")
  /\ scraper = 1
  /\ call = <<>>
  /\ batch = NoBatch
  /\ ep = <<>>
  /\ \/ \E text \in Texts :
          client = [pc |-> "args", fn |-> "_extract_experience_level", arg |-> text]
     \/ \E url \in FnUrls :
          client = [pc |-> "args", fn |-> "detect_portal", arg |-> url]
     \/ \E dom \in ListDoms, stale \in Stales :
          client = [pc |-> "args", fn |-> "_extract_list_items",
                    arg |-> [dom |-> dom, selectors |-> req_selectors, stale |-> stale]]

\* scraper._extract_experience_level(text)
CallExtractExperienceLevel ==
  /\ client.pc = "args" /\ client.fn = "_extract_experience_level"
  /\ client' = [client EXCEPT !.pc = "returned"] @@
                [out |-> _extract_experience_level(client.arg)]
  /\ UNCHANGED <<scraper, inst, session, call, batch, ep>>

\* scraper.detect_portal(url): urlparse raises ValueError on a malformed URL
CallDetectPortal ==
  /\ client.pc = "args" /\ client.fn = "detect_portal"
  /\ client' = IF client.arg.bad
                 THEN [client EXCEPT !.pc = "raised"] @@ [out |-> ErrBadUrl]
                 ELSE [client EXCEPT !.pc = "returned"] @@
                      [out |-> detect_portal(client.arg)]
  /\ UNCHANGED <<scraper, inst, session, call, batch, ep>>

\* scraper._extract_list_items(selectors) on the page of the session
CallExtractListItems ==
  /\ client.pc = "args" /\ client.fn = "_extract_list_items"
  /\ client' = [client EXCEPT !.pc = "returned"] @@
                [out |-> _extract_list_items_reading(client.arg.dom, client.arg.selectors,
                                                     client.arg.stale)]
  /\ UNCHANGED <<scraper, inst, session, call, batch, ep>>

NextFn == CallExtractExperienceLevel \/ CallDetectPortal \/ CallExtractListItems

SpecFn == InitFn /\ [][NextFn]_vars

\* -------------------------------------------- properties: the functions
Classified == client.pc = "returned" /\ client.fn = "_extract_experience_level"

HasTerm(terms, text) == \E w \in terms : InText(w, text)

\* C18: the experience classifier gives priority to Senior, then Junior,
\* then Mid: a text with a Senior term yields "Senior" whatever else it
\* contains, and a text with a Junior term and no Senior term yields "Junior"
\* also when it contains a Mid term.
C18_SeniorThenJunior ==
  Classified =>
    /\ HasTerm(SeniorTerms, client.arg) => client.out = <<"Senior">>
    /\ ~HasTerm(SeniorTerms, client.arg) /\ HasTerm(JuniorTerms, client.arg)
         => client.out = <<"Junior">>

C18_Witness ==
  /\ Classified
  /\ HasTerm(SeniorTerms, client.arg) /\ HasTerm(JuniorTerms, client.arg)
  /\ HasTerm(MidTerms, client.arg)
  /\ client.out = <<"Senior">>

\* C19 (as claimed): for every text without a Senior, Junior or Mid term,
\* the empty text included, the experience classifier returns "Mid" and
\* never "Unknown".
C19_DefaultsToMid ==
  /\ Classified
  /\ ~HasTerm(SeniorTerms, client.arg)
  /\ ~HasTerm(JuniorTerms, client.arg)
  /\ ~HasTerm(MidTerms, client.arg)
  => client.out = <<"Mid">>

RECURSIVE Hostname(_)
\* the host of a network location: what follows the last "@"
Hostname(netloc) ==
  IF \E i \in DOMAIN netloc : netloc[i] = "user@" THEN Hostname(Tail(netloc))
  ELSE netloc

\* the identifiers of the portals whose domain occurs in the host
MatchingPortals(host) ==
  {PortalIds[i] : i \in {k \in DOMAIN PortalKeys :
                           \E j \in DOMAIN host : PortalKeys[k] \in NetlocOccurs(host[j])}}

\* C20 (as claimed): for a URL whose host contains a known portal domain
\* detect_portal returns that portal's identifier, and for every other
\* host it returns "unknown".
C20_PortalOfHost ==
  client.pc = "returned" /\ client.fn = "detect_portal" =>
    LET ids == MatchingPortals(Hostname(client.arg.netloc))
    IN IF ids = {} THEN client.out = "unknown" ELSE client.out \in ids

Listed == client.pc = "returned" /\ client.fn = "_extract_list_items"

\* the accepted items of selector i that were read
Yield(arg, i) ==
  AcceptedItems(ReadBefore(Elems(arg.dom, arg.selectors[i]), arg.stale, i))

\* C24 (as claimed): _extract_list_items returns items of exactly one
\* selector, the first in order that yields any accepted item, and never
\* mixes items of different selectors, also when a read raises part-way
\* through a selector's elements.
C24_ItemsOfOneSelector ==
  Listed =>
    LET arg == client.arg
        yielding == {i \in 1..Len(arg.selectors) : Yield(arg, i) # <<>>}
    IN IF yielding = {} THEN client.out = <<>>
       ELSE client.out = Take(Yield(arg, CHOOSE i \in yielding : \A j \in yielding : i <= j), 10)
====
